---------------------------- MODULE Spec2Model ----------------------------
(***************************************************************************)
(* A model of kw_processor.py, the DDR keyword risk processor.             *)
(*                                                                         *)
(* Strings are sequences of one-character strings, so that lower(),        *)
(* upper(), strip(), substring containment, str() and strftime() are       *)
(* computed and not assumed.  A sheet (a pandas DataFrame read with        *)
(* header=None) is a record [ncols, rows], rows a sequence of rows, each   *)
(* a sequence of ncols cells.  A cell is a record [kind, s, n]:            *)
(*   kind = "nan"  an empty cell (NaN / NaT),                              *)
(*   kind = "str"  a string, s its characters,                             *)
(*   kind = "num"  a number, n its value,                                  *)
(*   kind = "ts"   a pandas Timestamp, n its minutes since 2024-01-01.     *)
(***************************************************************************)
EXTENDS Integers, Sequences, FiniteSets, TLC

VARIABLES
    pc,             \* position of the running call
    text,           \* search_keywords: the narrative
    keywords,       \* search_keywords / process_all_files: the keyword list
    matched,        \* search_keywords: the value returned
    filepath,       \* extract_report_number: the file name
    report_number,  \* extract_report_number: the value returned
    df,             \* find_operations_column / find_operations_data: the sheet
    ops_col,        \* the header column (returned by the locator, or given)
    operations,     \* find_operations_data: the outcome
    input_folder,   \* main: the input folder, its files in directory order
    excel_files,    \* process_all_files: the files found in the input folder
    file_idx,       \* process_all_files: number of files already visited
    all_results,    \* process_all_files: the accumulated Risk Matches
    results,        \* outcome of process_ddr_file for the file visited last
    out_file,       \* the output workbook on disk
    message         \* the last console message of save_results / main

vars == <<pc, text, keywords, matched, filepath, report_number, df, ops_col,
          operations, input_folder, excel_files, file_idx, all_results,
          results, out_file, message>>

kwVars   == <<text, keywords, matched>>
nameVars == <<filepath, report_number>>
gridVars == <<df, ops_col, operations>>
runVars  == <<input_folder, excel_files, file_idx, all_results, results,
             out_file, message>>

-----------------------------------------------------------------------------
(* Strings *)

LowerLetters == <<"a","b","c","d","e","f","g","h","i","j","k","l","m",
                  "n","o","p","q","r","s","t","u","v","w","x","y","z">>
UpperLetters == <<"A","B","C","D","E","F","G","H","I","J","K","L","M",
                  "N","O","P","Q","R","S","T","U","V","W","X","Y","Z">>
Digits == <<"0","1","2","3","4","5","6","7","8","9">>

\* str.lower() and str.upper() on one character
ToLower == [c \in {UpperLetters[i] : i \in 1..26} |->
               LowerLetters[CHOOSE i \in 1..26 : UpperLetters[i] = c]]
ToUpper == [c \in {LowerLetters[i] : i \in 1..26} |->
               UpperLetters[CHOOSE i \in 1..26 : LowerLetters[i] = c]]
LowerChar(c) == IF c \in DOMAIN ToLower THEN ToLower[c] ELSE c
UpperChar(c) == IF c \in DOMAIN ToUpper THEN ToUpper[c] ELSE c

Lower(s) == [i \in 1..Len(s) |-> LowerChar(s[i])]
Upper(s) == [i \in 1..Len(s) |-> UpperChar(s[i])]

\* needle in haystack
Contains(haystack, needle) ==
    \E i \in 0..(Len(haystack) - Len(needle)) :
        SubSeq(haystack, i + 1, i + Len(needle)) = needle

IsSpace(c) == c = " "
DigitChars == {Digits[i] : i \in 1..10}
IsDigit(c) == c \in DigitChars

\* str.strip()
RECURSIVE LStrip(_)
LStrip(s) == IF s # <<>> /\ IsSpace(Head(s)) THEN LStrip(Tail(s)) ELSE s
RECURSIVE RStrip(_)
RStrip(s) ==
    IF s # <<>> /\ IsSpace(s[Len(s)]) THEN RStrip(SubSeq(s, 1, Len(s) - 1)) ELSE s
Strip(s) == RStrip(LStrip(s))

\* all sequences over S of length at most n
SeqsUpTo(S, n) == UNION {[1..k -> S] : k \in 0..n}

-----------------------------------------------------------------------------
(* search_keywords *)

\* faulty variant: stops at the first keyword that matches
RECURSIVE SearchFirstOnly(_, _, _, _)
SearchFirstOnly(text_lower, kws, i, acc) ==
    IF i > Len(kws) \/ acc # <<>> THEN acc
    ELSE SearchFirstOnly(text_lower, kws, i + 1,
                         IF Contains(text_lower, Lower(kws[i]))
                         THEN Append(acc, kws[i]) ELSE acc)

\* the loop of search_keywords over keywords[i..], text_lower already computed
RECURSIVE SearchFrom(_, _, _, _)
SearchFrom(text_lower, kws, i, acc) ==
    IF i > Len(kws) THEN acc
    ELSE SearchFrom(text_lower, kws, i + 1,
                    IF Contains(text_lower, Lower(kws[i]))
                    THEN Append(acc, kws[i]) ELSE acc)

search_keywords(t, kws) == SearchFrom(Lower(t), kws, 1, <<>>)

\* inputs of the keyword matcher
MaxTextLen == 3
MaxKeywords == 2
TextChars == {"k", "K", "i", "I"}
KeywordSamples == {<<>>, <<"K">>, <<"K", "i">>, <<"i", "k">>}

KwInit ==
    /\ pc = "call"
    /\ text \in SeqsUpTo(TextChars, MaxTextLen)
    /\ keywords \in SeqsUpTo(KeywordSamples, MaxKeywords)
    /\ matched = <<>>
    /\ filepath = <<>> /\ report_number = <<>>
    /\ df = [ncols |-> 0, rows |-> <<>>] /\ ops_col = -1
    /\ operations = [raised |-> FALSE, rows |-> <<>>]
    /\ input_folder = [exists |-> FALSE, files |-> <<>>]
    /\ excel_files = <<>> /\ file_idx = 0 /\ all_results = <<>>
    /\ results = [raised |-> FALSE, rows |-> <<>>]
    /\ out_file = [exists |-> FALSE, sheets |-> <<>>]
    /\ message = "none"

CallSearchKeywords ==
    /\ pc = "call"
    /\ matched' = search_keywords(text, keywords)
    /\ pc' = "done"
    /\ UNCHANGED <<text, keywords, nameVars, gridVars, runVars>>

KwNext == CallSearchKeywords
KwSpec == KwInit /\ [][KwNext]_vars

\* the two characters are the same letter up to case, or the same character
LetterPairs ==
    {<<LowerLetters[i], UpperLetters[i]>> : i \in 1..26}
        \cup {<<UpperLetters[i], LowerLetters[i]>> : i \in 1..26}
SameLetter(a, b) == a = b \/ <<a, b>> \in LetterPairs

\* kw occurs in t as a substring, case ignored
OccursIgnoringCase(kw, t) ==
    \E off \in 0..(Len(t) - Len(kw)) :
        \A j \in 1..Len(kw) : SameLetter(kw[j], t[off + j])

\* C1: search_keywords returns exactly the keywords of the list that occur in
\* the narrative as a case-insensitive substring, in their original spelling
\* and in keyword-list order, all of them and not only the first.
C1_AllMatchesInListOrder ==
    pc = "done" =>
        matched = SelectSeq(keywords, LAMBDA kw : OccursIgnoringCase(kw, text))

\* a narrative in which two keywords occur, the first in another case
C1_Witness ==
    /\ pc = "done"
    /\ text = <<"k", "I", "K">>
    /\ keywords = <<<<"K", "i">>, <<"i", "k">>>>
    /\ matched = keywords

-----------------------------------------------------------------------------
(* extract_report_number *)

\* Path.stem: the name up to its last dot, unless that dot is the first or
\* the last character of the name
LastDot(name) ==
    IF \E i \in 1..Len(name) : name[i] = "."
    THEN CHOOSE i \in 1..Len(name) :
            name[i] = "." /\ \A j \in (i + 1)..Len(name) : name[j] # "."
    ELSE 0
Stem(name) ==
    IF 1 < LastDot(name) /\ LastDot(name) < Len(name)
    THEN SubSeq(name, 1, LastDot(name) - 1)
    ELSE name

\* \s* from position j on: the first position that holds no white space
RECURSIVE SkipSpaces(_, _)
SkipSpaces(s, j) ==
    IF j <= Len(s) /\ IsSpace(s[j]) THEN SkipSpaces(s, j + 1) ELSE j

\* (\d+) from position j on: the last position of the run of digits that
\* starts at j, j - 1 when s[j] is no digit
RECURSIVE DigitsEnd(_, _)
DigitsEnd(s, j) ==
    IF j <= Len(s) /\ IsDigit(s[j]) THEN DigitsEnd(s, j + 1) ELSE j - 1

\* group 1 of a match that starts with white space and digits at j, <<>> if none
GroupAt(s, j) ==
    LET a == SkipSpaces(s, j)
    IN  IF DigitsEnd(s, a) >= a THEN SubSeq(s, a, DigitsEnd(s, a)) ELSE <<>>

\* faulty variant: DDR is matched in upper case only (re.IGNORECASE dropped)
IsDDRAtCaseSensitive(s, i) ==
    i + 2 <= Len(s) /\ SubSeq(s, i, i + 2) = <<"D", "D", "R">>

\* "DDR" at position i, re.IGNORECASE
IsDDRAt(s, i) ==
    i + 2 <= Len(s) /\ Lower(SubSeq(s, i, i + 2)) = <<"d", "d", "r">>

\* the pattern (?:DDR\s*#?\s*|#\s*)(\d+) tried at position i: group 1, or
\* <<>> when it does not match there
MatchAt(s, i) ==
    IF IsDDRAt(s, i)
    THEN LET j == SkipSpaces(s, i + 3)
         IN  IF j <= Len(s) /\ s[j] = "#" THEN GroupAt(s, j + 1)
             ELSE GroupAt(s, j)
    ELSE IF s[i] = "#" THEN GroupAt(s, i + 1)
    ELSE <<>>

\* re.search: the match at the leftmost position, <<>> for None
RECURSIVE SearchAt(_, _)
SearchAt(s, i) ==
    IF i > Len(s) THEN <<>>
    ELSE IF MatchAt(s, i) # <<>> THEN MatchAt(s, i)
    ELSE SearchAt(s, i + 1)

extract_report_number(name) ==
    LET filename == Stem(name)
        match == SearchAt(filename, 1)
    IN  IF match # <<>> THEN match ELSE filename

\* inputs of extract_report_number
MaxNameLen == 5
NameChars == {"D", "d", "R", "#", " ", "4", "x", "."}
Name_DDR42 == <<"D","D","R"," ","#","4","2",".","x","l","s","x">>
Name_MorningLog ==
    <<"m","o","r","n","i","n","g","_","l","o","g",".","x","l","s","x">>

NameInit ==
    /\ pc = "call"
    /\ filepath \in SeqsUpTo(NameChars, MaxNameLen) \cup {Name_DDR42, Name_MorningLog}
    /\ report_number = <<>>
    /\ text = <<>> /\ keywords = <<>> /\ matched = <<>>
    /\ df = [ncols |-> 0, rows |-> <<>>] /\ ops_col = -1
    /\ operations = [raised |-> FALSE, rows |-> <<>>]
    /\ input_folder = [exists |-> FALSE, files |-> <<>>]
    /\ excel_files = <<>> /\ file_idx = 0 /\ all_results = <<>>
    /\ results = [raised |-> FALSE, rows |-> <<>>]
    /\ out_file = [exists |-> FALSE, sheets |-> <<>>]
    /\ message = "none"

CallExtractReportNumber ==
    /\ pc = "call"
    /\ report_number' = extract_report_number(filepath)
    /\ pc' = "done"
    /\ UNCHANGED <<filepath, kwVars, gridVars, runVars>>

NameNext == CallExtractReportNumber
NameSpec == NameInit /\ [][NameNext]_vars

\* a maximal run of digits occupies positions a..b of s
IsDigitRun(s, a, b) ==
    /\ 1 <= a /\ a <= b /\ b <= Len(s)
    /\ \A j \in a..b : IsDigit(s[j])
    /\ (a > 1 => ~IsDigit(s[a - 1]))
    /\ (b < Len(s) => ~IsDigit(s[b + 1]))

\* the run that starts at a follows "#" or "DDR" (any case), with nothing
\* but white space in between ("DDR #" ends in "#")
FollowsMarker(s, a) ==
    \E p \in 1..(a - 1) :
        /\ \A j \in (p + 1)..(a - 1) : s[j] = " "
        /\ \/ s[p] = "#"
           \/ /\ p >= 3
              /\ s[p - 2] \in {"D", "d"} /\ s[p - 1] \in {"D", "d"}
              /\ s[p] \in {"R", "r"}

\* C9: extract_report_number returns the first numeric sequence that follows
\* "DDR" or "#" in the file name when there is one, and otherwise the bare
\* file name without its extension.
C9_ReportNumber ==
    pc = "done" =>
        LET s == Stem(filepath)
            Starts == {a \in 1..Len(s) :
                          FollowsMarker(s, a) /\ \E b \in a..Len(s) : IsDigitRun(s, a, b)}
        IN  IF Starts = {}
            THEN report_number = s
            ELSE \E a \in Starts :
                    /\ \A a2 \in Starts : a <= a2
                    /\ \E b \in a..Len(s) :
                          IsDigitRun(s, a, b) /\ report_number = SubSeq(s, a, b)

\* the two examples: "DDR #42.xlsx" gives "42", "morning_log.xlsx" gives
\* "morning_log"
C9_Examples ==
    pc = "done" =>
        /\ filepath = Name_DDR42 => report_number = <<"4", "2">>
        /\ filepath = Name_MorningLog =>
              report_number = <<"m","o","r","n","i","n","g","_","l","o","g">>

C9_Witness ==
    /\ pc = "done"
    /\ filepath = Name_DDR42
    /\ report_number = <<"4", "2">>

-----------------------------------------------------------------------------
(* Cells and sheets *)

NaN == [kind |-> "nan", s |-> <<>>, n |-> 0]
StrCell(chars) == [kind |-> "str", s |-> chars, n |-> 0]
NumCell(k) == [kind |-> "num", s |-> <<>>, n |-> k]
TsCell(minutes) == [kind |-> "ts", s |-> <<>>, n |-> minutes]

\* len(df), and df.iloc[r, c] with r and c counted from 0
NRows(sheet) == Len(sheet.rows)
Cell(sheet, r, c) == sheet.rows[r + 1][c + 1]

Min(a, b) == IF a <= b THEN a ELSE b

\* the number of leading rows searched for the header: range(min(100, len(df)))
HEADER_SCAN_ROWS == 100

TargetHeader == <<"D","E","T","A","I","L","S"," ","O","F"," ","O","P","E","R","A","T",
        "I","O","N","S">>

\* isinstance(cell_value, str) and 'DETAILS OF OPERATIONS' in cell_value.upper()
IsHeaderCell(cell) ==
    cell.kind = "str" /\ Contains(Upper(cell.s), TargetHeader)

-----------------------------------------------------------------------------
(* find_operations_column *)

\* the header-row loop over the rows lo..hi-1 in ascending order, stopping
\* at the first hit: the first of these rows whose cell in column col is a
\* header cell, -1 if none. The range is walked by halves, lower half first.
RECURSIVE HeaderRowIn(_, _, _, _)
HeaderRowIn(sheet, col, lo, hi) ==
    IF lo >= hi THEN -1
    ELSE IF hi = lo + 1
         THEN (IF IsHeaderCell(Cell(sheet, lo, col)) THEN lo ELSE -1)
    ELSE LET mid == (lo + hi) \div 2
             row == HeaderRowIn(sheet, col, lo, mid)
         IN  IF row # -1 THEN row ELSE HeaderRowIn(sheet, col, mid, hi)

\* the inner loop over the columns of row r, resumed at column c: the first
\* column of the row that holds a header cell, -1 if none
RECURSIVE FindInRow(_, _, _)
FindInRow(sheet, r, c) ==
    IF c >= sheet.ncols THEN -1
    ELSE IF IsHeaderCell(Cell(sheet, r, c)) THEN c
    ELSE FindInRow(sheet, r, c + 1)

\* the outer loop over the rows lo..hi-1 in ascending order, returning at the
\* first row with a hit. The range is walked by halves, lower half first.
RECURSIVE FindColumnIn(_, _, _)
FindColumnIn(sheet, lo, hi) ==
    IF lo >= hi THEN -1
    ELSE IF hi = lo + 1 THEN FindInRow(sheet, lo, 0)
    ELSE LET mid == (lo + hi) \div 2
             col_idx == FindColumnIn(sheet, lo, mid)
         IN  IF col_idx # -1 THEN col_idx ELSE FindColumnIn(sheet, mid, hi)

\* faulty variant: the scan goes column by column
RECURSIVE FindColumnByColumn(_, _)
FindColumnByColumn(sheet, c) ==
    IF c >= sheet.ncols THEN -1
    ELSE IF HeaderRowIn(sheet, c, 0, Min(HEADER_SCAN_ROWS, NRows(sheet))) # -1 THEN c
    ELSE FindColumnByColumn(sheet, c + 1)
FindOperationsColumnByColumn(sheet) == FindColumnByColumn(sheet, 0)

find_operations_column(sheet) ==
    FindColumnIn(sheet, 0, Min(HEADER_SCAN_ROWS, NRows(sheet)))

-----------------------------------------------------------------------------
(* find_operations_data *)

\* faulty variant: the last header cell of the column wins (no break)
RECURSIVE LastHeaderRowIn(_, _, _, _)
LastHeaderRowIn(sheet, col, lo, hi) ==
    IF lo >= hi THEN -1
    ELSE IF hi = lo + 1
         THEN (IF IsHeaderCell(Cell(sheet, lo, col)) THEN lo ELSE -1)
    ELSE LET mid == (lo + hi) \div 2
             row == LastHeaderRowIn(sheet, col, mid, hi)
         IN  IF row # -1 THEN row ELSE LastHeaderRowIn(sheet, col, lo, mid)
LastHeaderRow(sheet, col) ==
    LastHeaderRowIn(sheet, col, 0, Min(HEADER_SCAN_ROWS, NRows(sheet)))

HeaderRow(sheet, col) ==
    HeaderRowIn(sheet, col, 0, Min(HEADER_SCAN_ROWS, NRows(sheet)))

\* "%02d"
TwoDigits(k) == <<Digits[(k \div 10) + 1], Digits[(k % 10) + 1]>>

\* str(k) of a natural number
RECURSIVE NatToStr(_)
NatToStr(k) ==
    IF k < 10 THEN <<Digits[k + 1]>>
    ELSE NatToStr(k \div 10) \o <<Digits[(k % 10) + 1]>>

\* Timestamp.strftime('%H:%M') and ('%Y-%m-%d %H:%M'), for a timestamp of
\* January 2024 given in minutes since 2024-01-01 00:00
StrfTime(minutes) ==
    TwoDigits((minutes % 1440) \div 60) \o <<":">> \o TwoDigits(minutes % 60)
StrfDateTime(minutes) ==
    <<"2","0","2","4","-","0","1","-">> \o TwoDigits((minutes \div 1440) + 1)
        \o <<" ">> \o StrfTime(minutes)

\* str(value) of a cell that is no Timestamp
StrOf(cell) == IF cell.kind = "str" THEN cell.s ELSE NatToStr(cell.n)

SepTo == <<" ", "t", "o", " ">>

\* faulty variant: a plain end value is appended also after an empty start
TimeStrAlwaysAppends(time_from, time_to) ==
    LET start == IF time_from.kind = "nan" THEN <<>>
                 ELSE IF time_from.kind = "ts" THEN StrfDateTime(time_from.n)
                 ELSE StrOf(time_from)
    IN  IF time_to.kind = "nan" THEN start
        ELSE IF time_to.kind = "ts" THEN start \o SepTo \o StrfTime(time_to.n)
        ELSE start \o SepTo \o StrOf(time_to)

\* the "Format time/date" block: time_str for the two time cells
TimeStr(time_from, time_to) ==
    LET start == IF time_from.kind = "nan" THEN <<>>
                 ELSE IF time_from.kind = "ts" THEN StrfDateTime(time_from.n)
                 ELSE StrOf(time_from)
    IN  IF time_to.kind = "nan" THEN start
        ELSE IF time_to.kind = "ts" THEN start \o SepTo \o StrfTime(time_to.n)
        ELSE IF start # <<>> THEN start \o SepTo \o StrOf(time_to)
        ELSE start

\* pd.isna(details) or not isinstance(details, str) or details.strip() == ''
IsSkipped(details) ==
    details.kind = "nan" \/ details.kind # "str" \/ Strip(details.s) = <<>>

WordTotal == <<"T","O","T","A","L">>
WordSummary == <<"S","U","M","M","A","R","Y">>

\* the section-break test on column 0 of a skipped row
IsSectionBreak(col0_val) ==
    /\ col0_val.kind = "str"
    /\ \/ Contains(Upper(col0_val.s), WordTotal)
       \/ Contains(Upper(col0_val.s), WordSummary)

\* the data loop, resumed at row r with the rows collected so far.  A row
\* that is not skipped reads columns 0 and 1: in a sheet of one column
\* df.iloc[row_idx, 1] raises IndexError and nothing is returned.
RECURSIVE DataFrom(_, _, _, _)
DataFrom(sheet, col, r, acc) ==
    IF r >= NRows(sheet) THEN [raised |-> FALSE, rows |-> acc]
    ELSE LET details == Cell(sheet, r, col)
         IN  IF IsSkipped(details)
             THEN IF IsSectionBreak(Cell(sheet, r, 0))
                  THEN DataFrom(sheet, col, r + 1, acc)
                  ELSE DataFrom(sheet, col, r + 1, acc)
             ELSE IF sheet.ncols < 2
                  THEN [raised |-> TRUE, rows |-> <<>>]
                  ELSE DataFrom(sheet, col, r + 1,
                           Append(acc,
                               [time_date |-> TimeStr(Cell(sheet, r, 0), Cell(sheet, r, 1)),
                                details |-> details.s]))

find_operations_data(sheet, col) ==
    LET header_row == HeaderRow(sheet, col)
    IN  IF header_row = -1 THEN [raised |-> FALSE, rows |-> <<>>]
        ELSE DataFrom(sheet, col, header_row + 2, <<>>)

-----------------------------------------------------------------------------
(* Sample cells and sheets *)

HeaderCell == StrCell(<<"D","e","t","a","i","l","s"," ","o","f"," ","O","p","e","r","a",
        "t","i","o","n","s"," ","i","n"," ","S","e","q","u","e","n","c","e">>)
TextCell == StrCell(<<"S","t","u","c","k"," ","p","i","p","e">>)
BlankCell == StrCell(<<" ", " ">>)
TotalCell == StrCell(<<"T","O","T","A","L">>)
NumberCell == NumCell(7)
StartCell == TsCell(390)        \* 2024-01-01 06:30
EndCell == TsCell(2285)         \* 2024-01-02 14:05

\* n rows of empty cells
EmptyRows(n, ncols) == [i \in 1..n |-> [c \in 1..ncols |-> NaN]]

\* numbers of empty rows above the populated rows of a sheet: none, and
\* enough to put the populated rows on either side of the 100-row bound
Pads == {0, HEADER_SCAN_ROWS - 2, HEADER_SCAN_ROWS}

IdleKwName ==
    /\ text = <<>> /\ keywords = <<>> /\ matched = <<>>
    /\ filepath = <<>> /\ report_number = <<>>
IdleRun ==
    /\ input_folder = [exists |-> FALSE, files |-> <<>>]
    /\ excel_files = <<>> /\ file_idx = 0 /\ all_results = <<>>
    /\ results = [raised |-> FALSE, rows |-> <<>>]
    /\ out_file = [exists |-> FALSE, sheets |-> <<>>]
    /\ message = "none"

-----------------------------------------------------------------------------
(* The header locator followed by the row segmenter, as process_ddr_file    *)
(* runs them on one sheet                                                   *)

MaxRows == 3
LocateColCounts == {1, 2}
LocateCells == {NumberCell, TextCell, HeaderCell}

LocateInit ==
    /\ pc = "locate"
    /\ \E ncols \in LocateColCounts, nrows \in 0..MaxRows, pad \in Pads :
         \E body \in [1..nrows -> [1..ncols -> LocateCells]] :
            df = [ncols |-> ncols, rows |-> EmptyRows(pad, ncols) \o body]
    /\ ops_col = -1
    /\ operations = [raised |-> FALSE, rows |-> <<>>]
    /\ IdleKwName /\ IdleRun

\* ops_col = find_operations_column(df); if ops_col == -1: continue
CallFindOperationsColumn ==
    /\ pc = "locate"
    /\ ops_col' = find_operations_column(df)
    /\ pc' = IF ops_col' = -1 THEN "skipped" ELSE "segment"
    /\ UNCHANGED <<df, operations, kwVars, nameVars, runVars>>

\* operations = find_operations_data(df, ops_col)
CallFindOperationsData ==
    /\ pc = "segment"
    /\ operations' = find_operations_data(df, ops_col)
    /\ pc' = "done"
    /\ UNCHANGED <<df, ops_col, kwVars, nameVars, runVars>>

LocateNext == CallFindOperationsColumn \/ CallFindOperationsData
LocateSpec == LocateInit /\ [][LocateNext]_vars

\* the cell is a string that contains the header text, case ignored
HoldsHeaderText(cell) ==
    cell.kind = "str" /\ OccursIgnoringCase(TargetHeader, cell.s)

\* the header cells among the first 100 rows, as <<row, column>>
ScannedHeaderCells(sheet) ==
    {rc \in (0..(Min(HEADER_SCAN_ROWS, NRows(sheet)) - 1)) \X (0..(sheet.ncols - 1)) :
        HoldsHeaderText(Cell(sheet, rc[1], rc[2]))}

\* rc comes first in row-major order among the cells of S
IsFirstRowMajor(rc, S) ==
    \A other \in S : rc[1] < other[1] \/ (rc[1] = other[1] /\ rc[2] <= other[2])

\* C2: find_operations_column returns the column of the first cell, in
\* row-major order over the first 100 rows and all columns, that is a string
\* containing "DETAILS OF OPERATIONS" case-insensitively, and -1 exactly when
\* no such cell exists in those rows; non-string cells never match.
C2_FirstHeaderRowMajor ==
    pc # "locate" =>
        LET found == ScannedHeaderCells(df)
        IN  IF found = {}
            THEN ops_col = -1
            ELSE \E rc \in found : IsFirstRowMajor(rc, found) /\ ops_col = rc[2]

\* the header text stands in column 0 of a later row and in column 1 of an
\* earlier one, after a non-string cell: the locator answers column 1
C2_Witness ==
    /\ pc # "locate"
    /\ df.ncols = 2 /\ NRows(df) = 2
    /\ df.rows[1] = <<NumberCell, HeaderCell>>
    /\ df.rows[2][1] = HeaderCell
    /\ ops_col = 1

\* the only header cell lies at row index 100: not found
C2_WitnessBeyondBound ==
    /\ pc = "skipped"
    /\ NRows(df) = HEADER_SCAN_ROWS + 1
    /\ Cell(df, HEADER_SCAN_ROWS, 0) = HeaderCell
    /\ ops_col = -1

\* the rows at index >= first whose cell in column col is a non-blank string
NarrativeRows(sheet, col, first) ==
    {r \in first..(NRows(sheet) - 1) :
        /\ Cell(sheet, r, col).kind = "str"
        /\ \E j \in 1..Len(Cell(sheet, r, col).s) : Cell(sheet, r, col).s[j] # " "}

\* the elements of a finite set of integers in ascending order
RECURSIVE Ascending(_)
Ascending(S) ==
    IF S = {} THEN <<>>
    ELSE LET m == CHOOSE x \in S : \A y \in S : x <= y
         IN  <<m>> \o Ascending(S \ {m})

\* C10: when the locator returns a column c # -1, its first row-major match
\* being the cell (r, c), the header-row search of find_operations_data(df, c)
\* finds a header row, that row is r, and the narratives returned are those
\* of the rows from r + 2 on, also when several cells hold the header text.
C10_SegmenterFindsLocatorsHeader ==
    pc = "done" =>
      LET found == ScannedHeaderCells(df)
      IN  \E rc \in found :
            /\ IsFirstRowMajor(rc, found)
            /\ rc[2] = ops_col
            /\ HeaderRow(df, ops_col) = rc[1]
            /\ ~operations.raised =>
                  LET rs == Ascending(NarrativeRows(df, ops_col, rc[1] + 2))
                  IN  /\ Len(operations.rows) = Len(rs)
                      /\ \A k \in 1..Len(rs) :
                            operations.rows[k].details = Cell(df, rs[k], ops_col).s

\* two header cells in the header column and a third in another column: the
\* first one is the header row, the second is read as a narrative
C10_Witness ==
    /\ pc = "done"
    /\ df.ncols = 2 /\ NRows(df) = HEADER_SCAN_ROWS + 1
    /\ Cell(df, HEADER_SCAN_ROWS - 2, 1) = HeaderCell
    /\ Cell(df, HEADER_SCAN_ROWS - 1, 0) = HeaderCell
    /\ Cell(df, HEADER_SCAN_ROWS, 1) = HeaderCell
    /\ ops_col = 1
    /\ HeaderRow(df, ops_col) = HEADER_SCAN_ROWS - 2
    /\ Len(operations.rows) = 1

-----------------------------------------------------------------------------
(* The row segmenter on report-shaped sheets: empty rows, a header row, a    *)
(* row below it with a text in the header column, then data rows with two   *)
(* time cells and a narrative                                               *)

MaxDataRows == 2
SegmentColCounts == {1, 2, 3}
NarrativeCells == {NaN, NumberCell, BlankCell, TextCell}
FirstColCells == {NaN, StartCell, TotalCell}
SecondColCells == {NaN, EndCell, NumberCell}

\* where the header row stands: absent, the first row, the last row searched
HeaderPlacements ==
    {[header |-> FALSE, pad |-> 0], [header |-> TRUE, pad |-> 0],
     [header |-> TRUE, pad |-> HEADER_SCAN_ROWS - 1]}

\* the cells a data row may hold in column c when the narrative column is col
ColumnCells(c, col) ==
    IF c = col THEN NarrativeCells
    ELSE IF c = 0 THEN FirstColCells
    ELSE IF c = 1 THEN SecondColCells
    ELSE {NaN}

DataRowsOf(ncols, col) ==
    {row \in [1..ncols -> NarrativeCells \cup FirstColCells \cup SecondColCells] :
        \A c \in 1..ncols : row[c] \in ColumnCells(c - 1, col)}

\* a row that holds the cell in column col and is empty elsewhere
RowWith(cell, ncols, col) == [c \in 1..ncols |-> IF c = col + 1 THEN cell ELSE NaN]

SegmentInit ==
    /\ pc = "segment"
    /\ \E ncols \in SegmentColCounts :
         \E col \in 0..(ncols - 1), place \in HeaderPlacements,
            ndata \in 0..MaxDataRows :
           \E data \in [1..ndata -> DataRowsOf(ncols, col)] :
              /\ ops_col = col
              /\ df = [ncols |-> ncols,
                       rows |-> EmptyRows(place.pad, ncols)
                                \o (IF place.header
                                    THEN <<RowWith(HeaderCell, ncols, col)>> ELSE <<>>)
                                \o <<RowWith(TextCell, ncols, col)>>
                                \o data]
    /\ operations = [raised |-> FALSE, rows |-> <<>>]
    /\ IdleKwName /\ IdleRun

SegmentNext == CallFindOperationsData
SegmentSpec == SegmentInit /\ [][SegmentNext]_vars

\* the first row of the first 100 whose cell in column col holds the header
\* text, -1 if there is none
FirstHeaderRowOf(sheet, col) ==
    LET hs == {r \in 0..(Min(HEADER_SCAN_ROWS, NRows(sheet)) - 1) :
                  HoldsHeaderText(Cell(sheet, r, col))}
    IN  IF hs = {} THEN -1 ELSE CHOOSE r \in hs : \A r2 \in hs : r <= r2

\* the narratives returned are those of the rows rs, in that order
ReturnsNarrativesOf(rs) ==
    /\ ~operations.raised
    /\ Len(operations.rows) = Len(rs)
    /\ \A k \in 1..Len(rs) : operations.rows[k].details = Cell(df, rs[k], ops_col).s

\* C3: the sequence find_operations_data returns is, in ascending row order,
\* one Operation Row for each row at index >= header_row + 2 whose cell in the
\* header column is a non-blank string, for every sheet and header column.
C3_OneRowPerNarrative ==
    pc = "done" =>
        IF FirstHeaderRowOf(df, ops_col) = -1
        THEN ~operations.raised /\ operations.rows = <<>>
        ELSE ReturnsNarrativesOf(
                 Ascending(NarrativeRows(df, ops_col, FirstHeaderRowOf(df, ops_col) + 2)))

\* what holds instead: in a sheet of one column the first narrative row
\* raises IndexError; in wider sheets C3 holds as stated
C3_ExceptInOneColumnSheets ==
    pc = "done" =>
        LET hr == FirstHeaderRowOf(df, ops_col)
            rs == IF hr = -1 THEN <<>> ELSE Ascending(NarrativeRows(df, ops_col, hr + 2))
        IN  IF df.ncols < 2 /\ rs # <<>>
            THEN operations = [raised |-> TRUE, rows |-> <<>>]
            ELSE ReturnsNarrativesOf(rs)

\* a section break between two narratives: both narratives are returned
C3_SectionBreakSkipped ==
    /\ pc = "done"
    /\ df.ncols = 3 /\ ops_col = 2 /\ NRows(df) = 4
    /\ df.rows[3] = <<TotalCell, NaN, NaN>>
    /\ Len(operations.rows) = 1
    /\ df.rows[4][3] = TextCell

\* the rows of df that find_operations_data emits, in order
EmittedRows ==
    IF FirstHeaderRowOf(df, ops_col) = -1 THEN <<>>
    ELSE Ascending(NarrativeRows(df, ops_col, FirstHeaderRowOf(df, ops_col) + 2))

IsPlain(cell) == cell.kind \in {"str", "num"}

\* the start as date and time, the end as time, a plain value as its text
StartText(cell) == IF cell.kind = "ts" THEN StrfDateTime(cell.n) ELSE StrOf(cell)
EndText(cell) == IF cell.kind = "ts" THEN StrfTime(cell.n) ELSE StrOf(cell)

\* C4, as stated: "start to end-time" when both time cells are timestamps,
\* "value to value" when one of the cells is a plain value, and the empty
\* string when neither cell is present.
C4_AsStated ==
    (pc = "done" /\ ~operations.raised) =>
        \A k \in 1..Len(operations.rows) :
            LET time_from == Cell(df, EmittedRows[k], 0)
                time_to == Cell(df, EmittedRows[k], 1)
                time_str == operations.rows[k].time_date
            IN  /\ (time_from.kind = "ts" /\ time_to.kind = "ts") =>
                      time_str = StrfDateTime(time_from.n) \o SepTo \o StrfTime(time_to.n)
                /\ (IsPlain(time_from) \/ IsPlain(time_to)) =>
                      \E a, b \in {<<>>, StartText(time_from), EndText(time_to)} :
                          time_str = a \o SepTo \o b
                /\ (time_from.kind = "nan" /\ time_to.kind = "nan") => time_str = <<>>

\* C4, amended: the time string by the combinations of the two cells.
\*   both timestamps: start as date and time, " to ", end as time;
\*   both present and one of them plain: start " to " end, a plain value as
\*     its text and a timestamp rendered as above, provided the text of the
\*     start is not empty;
\*   start present, end absent: the start alone;
\*   start absent, end a timestamp: " to " and the end as time;
\*   start absent (or of empty text) and end plain, or both absent: the
\*     empty string.
C4_TimeStringByCase ==
    (pc = "done" /\ ~operations.raised) =>
        /\ Len(operations.rows) = Len(EmittedRows)
        /\ \A k \in 1..Len(operations.rows) :
            LET time_from == Cell(df, EmittedRows[k], 0)
                time_to == Cell(df, EmittedRows[k], 1)
                time_str == operations.rows[k].time_date
                no_start == time_from.kind = "nan" \/ StartText(time_from) = <<>>
            IN  CASE time_from.kind = "ts" /\ time_to.kind = "ts" ->
                        time_str = StrfDateTime(time_from.n) \o SepTo \o StrfTime(time_to.n)
                  [] ~no_start /\ time_to.kind # "nan"
                              /\ (IsPlain(time_from) \/ IsPlain(time_to)) ->
                        time_str = StartText(time_from) \o SepTo \o EndText(time_to)
                  [] time_from.kind # "nan" /\ time_to.kind = "nan" ->
                        time_str = StartText(time_from)
                  [] no_start /\ time_to.kind = "ts" ->
                        time_str = SepTo \o StrfTime(time_to.n)
                  [] OTHER -> time_str = <<>>

\* a row with two timestamps gives "2024-01-01 06:30 to 14:05", and a row
\* with a plain start and no end gives the start alone
C4_Witness ==
    /\ pc = "done" /\ ~operations.raised
    /\ df.ncols = 3 /\ ops_col = 2 /\ NRows(df) = 4
    /\ df.rows[3] = <<StartCell, EndCell, TextCell>>
    /\ df.rows[4] = <<TotalCell, NaN, TextCell>>
    /\ Len(operations.rows) = 2
    /\ operations.rows[1].time_date = <<"2","0","2","4","-","0","1","-","0","1"," ","0",
            "6",":","3","0"," ","t","o"," ","1","4",":","0","5">>
    /\ operations.rows[2].time_date = <<"T","O","T","A","L">>

-----------------------------------------------------------------------------
(* process_ddr_file *)

RISK_KEYWORDS ==
    <<<<"H","i","g","h"," ","T","R","Q">>,
      <<"T","o","r","q","u","e">>,
      <<"S","t","u","c","k">>,
      <<"S","t","r","i","n","g"," ","v","i","b","r","a","t","i","o","n">>,
      <<"M","u","d"," ","l","o","s","s">>,
      <<"M","u","d"," ","g","a","i","n">>,
      <<"D","r","a","g">>,
      <<"S","t","r","i","n","g"," ","i","n","s","t","a","l","l","a","t","i","o","n">>,
      <<"S","t","r","i","n","g"," ","r","u","n","n","i","n","g">>,
      <<"W","a","s","h","o","u","t">>,
      <<"H","o","l","e"," ","p","r","o","b","l","e","m","s">>,
      <<"D","i","f","f","e","r","e","n","t","i","a","l"," ","s","t","i","c","k","i","n","g">>,
      <<"P","a","c","k","-","o","f","f">>,
      <<"K","i","c","k">>,
      <<"W","e","l","l"," ","c","o","n","t","r","o","l">>>>

\* ', '.join(strings)
RECURSIVE Join(_)
Join(strings) ==
    IF strings = <<>> THEN <<>>
    ELSE IF Len(strings) = 1 THEN strings[1]
    ELSE strings[1] \o <<",", " ">> \o Join(Tail(strings))

\* the loop over the operations of one sheet, resumed at operation i
RECURSIVE MatchesFrom(_, _, _, _, _)
MatchesFrom(ops, kws, number, i, acc) ==
    IF i > Len(ops) THEN acc
    ELSE LET matched_keywords == search_keywords(ops[i].details, kws)
         IN  MatchesFrom(ops, kws, number, i + 1,
                 IF matched_keywords # <<>>
                 THEN Append(acc, [ReportNumber |-> number,
                                   TimeDate |-> ops[i].time_date,
                                   Risks |-> Join(matched_keywords)])
                 ELSE acc)

\* the loop over the sheets of a workbook, resumed at sheet i.  A sheet that
\* cannot be read, or whose segmentation raises, ends the call by an exception.
RECURSIVE SheetsFrom(_, _, _, _, _)
SheetsFrom(sheets, kws, number, i, acc) ==
    IF i > Len(sheets) THEN [raised |-> FALSE, rows |-> acc]
    ELSE IF ~sheets[i].readable THEN [raised |-> TRUE, rows |-> <<>>]
    ELSE LET sheet == sheets[i].data
             col == find_operations_column(sheet)
         IN  IF col = -1 THEN SheetsFrom(sheets, kws, number, i + 1, acc)
             ELSE LET ops == find_operations_data(sheet, col)
                  IN  IF ops.raised THEN [raised |-> TRUE, rows |-> <<>>]
                      ELSE SheetsFrom(sheets, kws, number, i + 1,
                               MatchesFrom(ops.rows, kws, number, 1, acc))

\* a workbook pd.ExcelFile cannot open raises at once
process_ddr_file(file, kws) ==
    IF file.corrupt THEN [raised |-> TRUE, rows |-> <<>>]
    ELSE SheetsFrom(file.sheets, kws, extract_report_number(file.name), 1, <<>>)

-----------------------------------------------------------------------------
(* process_all_files, save_results, main *)

\* name matches the glob pattern '*' + suffix
EndsWith(name, suffix) ==
    /\ Len(name) >= Len(suffix)
    /\ SubSeq(name, Len(name) - Len(suffix) + 1, Len(name)) = suffix

\* list(input_folder.glob('*.xlsx')) + list(input_folder.glob('*.xls'))
ExcelFilesOf(files) ==
    SelectSeq(files, LAMBDA f : EndsWith(f.name, <<".","x","l","s","x">>))
        \o SelectSeq(files, LAMBDA f : EndsWith(f.name, <<".","x","l","s">>))

\* faulty variant: a file that fails discards what the earlier files gave
AfterFileFailureClears(acc, outcome) ==
    IF outcome.raised THEN <<>> ELSE acc \o outcome.rows

\* the try block of the loop: all_results after one file
AfterFile(acc, outcome) ==
    IF outcome.raised THEN acc ELSE acc \o outcome.rows

SheetName == "Risk Analysis"

\* df.to_excel(writer, sheet_name=...) in mode 'a' with
\* if_sheet_exists='replace': a sheet of that name is deleted and a new one
\* is created in its place, otherwise the new sheet is added last
WriteSheet(sheets, name, rows) ==
    IF \E i \in 1..Len(sheets) : sheets[i].name = name
    THEN [i \in 1..Len(sheets) |->
             IF sheets[i].name = name THEN [name |-> name, rows |-> rows]
             ELSE sheets[i]]
    ELSE Append(sheets, [name |-> name, rows |-> rows])

\* faulty variant: the new rows are added below the rows of the existing sheet
SaveResultsMerging(table, file, name) ==
    IF table = <<>> THEN [file |-> file, message |-> "No results to save."]
    ELSE IF file.exists /\ \E i \in 1..Len(file.sheets) : file.sheets[i].name = name
    THEN [file |-> [exists |-> TRUE,
                    sheets |-> [i \in 1..Len(file.sheets) |->
                                   IF file.sheets[i].name = name
                                   THEN [name |-> name,
                                         rows |-> file.sheets[i].rows \o table]
                                   ELSE file.sheets[i]]],
          message |-> "Results saved"]
    ELSE [file |-> [exists |-> TRUE,
                    sheets |-> IF file.exists
                               THEN Append(file.sheets, [name |-> name, rows |-> table])
                               ELSE <<[name |-> name, rows |-> table]>>],
          message |-> "Results saved"]

\* faulty variant: no test for an empty table
SaveResultsAlways(table, file, name) ==
    IF file.exists
    THEN [file |-> [exists |-> TRUE, sheets |-> WriteSheet(file.sheets, name, table)],
          message |-> "Results saved"]
    ELSE [file |-> [exists |-> TRUE, sheets |-> <<[name |-> name, rows |-> table]>>],
          message |-> "Results saved"]

\* save_results: the output file and the message printed
save_results(table, file, name) ==
    IF table = <<>> THEN [file |-> file, message |-> "No results to save."]
    ELSE IF file.exists
    THEN [file |-> [exists |-> TRUE, sheets |-> WriteSheet(file.sheets, name, table)],
          message |-> "Results saved"]
    ELSE [file |-> [exists |-> TRUE, sheets |-> <<[name |-> name, rows |-> table]>>],
          message |-> "Results saved"]

-----------------------------------------------------------------------------
(* Sample workbooks and folders *)

NarrativeTorqueStuck == StrCell(<<"O","b","s","e","r","v","e","d"," ","h","i","g","h",
        " ","t","o","r","q","u","e"," ","a","n","d"," ","s","i","g","n","s"," ","o","f",
        " ","s","t","u","c","k"," ","p","i","p","e">>)
NarrativeTrqDrag == StrCell(<<"H","i","g","h"," ","T","R","Q"," ","a","n","d"," ","d","r","a","g">>)
NarrativeQuiet == StrCell(<<"D","r","i","l","l","i","n","g"," ","a","h","e","a","d">>)

\* header in column 2; two narratives with keywords around a section break
\* and a narrative without keyword
SheetTwoMatches ==
    [readable |-> TRUE,
     data |-> [ncols |-> 3,
               rows |-> <<<<NaN, NaN, HeaderCell>>,
                          <<NaN, NaN, NaN>>,
                          <<StartCell, EndCell, NarrativeTorqueStuck>>,
                          <<TotalCell, NaN, NaN>>,
                          <<NaN, NumberCell, NarrativeQuiet>>,
                          <<TotalCell, NaN, NarrativeTrqDrag>>>>]]
\* header in column 1; one narrative with a keyword
SheetOneMatch ==
    [readable |-> TRUE,
     data |-> [ncols |-> 2,
               rows |-> <<<<NaN, HeaderCell>>,
                          <<NaN, TextCell>>,
                          <<StartCell, TextCell>>>>]]
\* header, no narrative with a keyword
SheetNoMatch ==
    [readable |-> TRUE,
     data |-> [ncols |-> 3,
               rows |-> <<<<NaN, NaN, HeaderCell>>,
                          <<NaN, NaN, NaN>>,
                          <<StartCell, EndCell, NarrativeQuiet>>>>]]
\* no header cell
SheetNoHeader ==
    [readable |-> TRUE,
     data |-> [ncols |-> 2,
               rows |-> <<<<TextCell, NumberCell>>, <<NaN, TextCell>>>>]]
\* a sheet of a single column: header, sub-header, narrative
SheetOneColumn ==
    [readable |-> TRUE,
     data |-> [ncols |-> 1,
               rows |-> <<<<HeaderCell>>, <<NaN>>, <<TextCell>>>>]]
\* a sheet pd.read_excel cannot read
SheetUnreadable ==
    [readable |-> FALSE, data |-> [ncols |-> 0, rows |-> <<>>]]

FileSamples ==
    {[name |-> Name_DDR42, corrupt |-> FALSE,
      sheets |-> <<SheetNoHeader, SheetTwoMatches, SheetOneMatch>>],
     [name |-> Name_MorningLog, corrupt |-> FALSE, sheets |-> <<SheetNoMatch>>],
     [name |-> <<"D","D","R","7",".","x","l","s">>, corrupt |-> TRUE, sheets |-> <<>>],
     [name |-> <<"d","d","r"," ","8",".","x","l","s","x">>, corrupt |-> FALSE,
      sheets |-> <<SheetOneMatch, SheetOneColumn>>],
     [name |-> <<"#","9",".","x","l","s","x">>, corrupt |-> FALSE,
      sheets |-> <<SheetOneMatch, SheetUnreadable>>],
     [name |-> <<"n","o","t","e","s",".","t","x",
             "t">>, corrupt |-> FALSE, sheets |-> <<SheetTwoMatches>>]}

MaxFiles == 2
Folders ==
    {[exists |-> FALSE, files |-> <<>>]}
        \cup {[exists |-> TRUE, files |-> fs] : fs \in SeqsUpTo(FileSamples, MaxFiles)}

OldRow == [ReportNumber |-> <<"1">>, TimeDate |-> <<>>, Risks |-> <<"K","i","c","k">>]
NotesSheet == [name |-> "Notes", rows |-> <<>>]
OutFiles ==
    {[exists |-> FALSE, sheets |-> <<>>],
     [exists |-> TRUE, sheets |-> <<NotesSheet>>],
     [exists |-> TRUE, sheets |-> <<[name |-> SheetName, rows |-> <<OldRow>>], NotesSheet>>]}

-----------------------------------------------------------------------------
(* One run of main after another *)

RunInit ==
    /\ pc = "main"
    /\ input_folder \in Folders
    /\ out_file \in OutFiles
    /\ keywords = RISK_KEYWORDS
    /\ excel_files = <<>> /\ file_idx = 0 /\ all_results = <<>>
    /\ results = [raised |-> FALSE, rows |-> <<>>]
    /\ message = "none"
    /\ text = <<>> /\ matched = <<>>
    /\ filepath = <<>> /\ report_number = <<>>
    /\ df = [ncols |-> 0, rows |-> <<>>] /\ ops_col = -1
    /\ operations = [raised |-> FALSE, rows |-> <<>>]

runFrame == <<text, keywords, matched, nameVars, gridVars>>

\* if not input_folder.exists(): print the error and return
MainFolderMissing ==
    /\ pc = "main"
    /\ ~input_folder.exists
    /\ message' = "Error: Input folder not found"
    /\ pc' = "exit"
    /\ UNCHANGED <<input_folder, excel_files, file_idx, all_results, results,
                   out_file, runFrame>>

\* process_all_files up to its loop
ListExcelFiles ==
    /\ pc = "main"
    /\ input_folder.exists
    /\ excel_files' = ExcelFilesOf(input_folder.files)
    /\ file_idx' = 0
    /\ all_results' = <<>>
    /\ pc' = "loop"
    /\ UNCHANGED <<input_folder, results, out_file, message, runFrame>>

\* one iteration of the loop of process_all_files
ProcessNextFile ==
    /\ pc = "loop"
    /\ file_idx < Len(excel_files)
    /\ results' = process_ddr_file(excel_files[file_idx + 1], keywords)
    /\ all_results' = AfterFile(all_results, results')
    /\ file_idx' = file_idx + 1
    /\ UNCHANGED <<pc, input_folder, excel_files, out_file, message, runFrame>>

\* return pd.DataFrame(all_results)
ReturnResults ==
    /\ pc = "loop"
    /\ file_idx = Len(excel_files)
    /\ pc' = "save"
    /\ UNCHANGED <<runVars, runFrame>>

\* the end of main: save_results is called for a table that is not empty
MainSaveOrReport ==
    /\ pc = "save"
    /\ IF all_results # <<>>
       THEN /\ out_file' = save_results(all_results, out_file, SheetName).file
            /\ message' = save_results(all_results, out_file, SheetName).message
       ELSE /\ out_file' = out_file
            /\ message' = "No risk keywords found in any files."
    /\ pc' = "exit"
    /\ UNCHANGED <<input_folder, excel_files, file_idx, all_results, results, runFrame>>

\* save_results called on the table of process_all_files without main's test
CallSaveResults ==
    /\ pc = "save"
    /\ out_file' = save_results(all_results, out_file, SheetName).file
    /\ message' = save_results(all_results, out_file, SheetName).message
    /\ pc' = "exit"
    /\ UNCHANGED <<input_folder, excel_files, file_idx, all_results, results, runFrame>>

\* the tool is run again, on a folder that may have changed: the output
\* file is all that is left of the earlier run
RunAgain ==
    /\ pc = "exit"
    /\ input_folder' \in Folders
    /\ excel_files' = <<>> /\ file_idx' = 0 /\ all_results' = <<>>
    /\ results' = [raised |-> FALSE, rows |-> <<>>]
    /\ message' = "none"
    /\ pc' = "main"
    /\ UNCHANGED <<out_file, runFrame>>

RunNext ==
    \/ MainFolderMissing
    \/ ListExcelFiles
    \/ ProcessNextFile
    \/ ReturnResults
    \/ MainSaveOrReport
    \/ CallSaveResults
    \/ RunAgain
RunSpec == RunInit /\ [][RunNext]_vars

\* the match lists of the first n files, those that raised left out
RECURSIVE MatchListsOf(_, _)
MatchListsOf(files, n) ==
    IF n = 0 THEN <<>>
    ELSE MatchListsOf(files, n - 1)
            \o (IF process_ddr_file(files[n], keywords).raised THEN <<>>
                ELSE process_ddr_file(files[n], keywords).rows)

\* C5: a file that fails does not abort process_all_files: every file after
\* it is still processed, and the table is the concatenation, in traversal
\* order, of the match lists of the files processed without an exception.
C5_FailingFilesSkipped ==
    /\ pc \in {"loop", "save", "exit"} =>
          all_results = MatchListsOf(excel_files, file_idx)
    /\ pc = "save" => file_idx = Len(excel_files)

\* a workbook that raises, then one with three matches: the three are kept
C5_Witness ==
    /\ pc = "save"
    /\ Len(excel_files) = 2
    /\ excel_files[1].name = <<"d","d","r"," ","8",".","x","l","s","x">>
    /\ excel_files[2].name = Name_DDR42
    /\ results.raised = FALSE
    /\ Len(all_results) = 3

\* the keywords that occur in a narrative, case ignored, in list order
KeywordsIn(narrative) ==
    SelectSeq(keywords, LAMBDA kw : OccursIgnoringCase(kw, narrative))

\* the Risk Matches of one sheet: none without a header cell, else one for
\* each narrative row from two rows below the header that holds a keyword
SheetMatches(sheet, number) ==
    LET found == ScannedHeaderCells(sheet)
    IN  IF found = {} THEN <<>>
        ELSE LET first == CHOOSE rc \in found : IsFirstRowMajor(rc, found)
                 hits == SelectSeq(Ascending(NarrativeRows(sheet, first[2], first[1] + 2)),
                             LAMBDA r : KeywordsIn(Cell(sheet, r, first[2]).s) # <<>>)
             IN  [k \in 1..Len(hits) |->
                     [ReportNumber |-> number,
                      Risks |-> Join(KeywordsIn(Cell(sheet, hits[k], first[2]).s))]]

RECURSIVE FileMatches(_, _, _)
FileMatches(sheets, number, n) ==
    IF n = 0 THEN <<>>
    ELSE FileMatches(sheets, number, n - 1) \o SheetMatches(sheets[n].data, number)

\* the call returned the Risk Matches the sheets of the file hold
ReturnsMatchesOf(file) ==
    LET expected == FileMatches(file.sheets, extract_report_number(file.name),
                                Len(file.sheets))
    IN  /\ ~results.raised
        /\ Len(results.rows) = Len(expected)
        /\ \A k \in 1..Len(expected) :
              /\ results.rows[k].ReportNumber = expected[k].ReportNumber
              /\ results.rows[k].Risks = expected[k].Risks
              /\ results.rows[k].Risks # <<>>

IsReadable(file) ==
    ~file.corrupt /\ \A i \in 1..Len(file.sheets) : file.sheets[i].readable

\* C8: for every file that can be read, process_ddr_file returns one Risk
\* Match for each Operation Row whose narrative holds a keyword, in
\* sheet-then-row order, with the report identifier and the keywords joined
\* by ", "; a sheet without header is skipped and the later sheets are read.
C8_OneMatchPerMatchingRow ==
    (pc \in {"loop", "save"} /\ file_idx > 0 /\ IsReadable(excel_files[file_idx]))
        => ReturnsMatchesOf(excel_files[file_idx])

\* what holds instead: C8 for the calls that return
C8_WhenItReturns ==
    (pc \in {"loop", "save"} /\ file_idx > 0 /\ ~results.raised)
        => ReturnsMatchesOf(excel_files[file_idx])

\* the workbook with a sheet without header before two sheets with matches
C8_ThreeMatches ==
    /\ pc = "loop" /\ file_idx = 1
    /\ excel_files[1].name = Name_DDR42
    /\ Len(results.rows) = 3
    /\ results.rows[1] = [ReportNumber |-> <<"4", "2">>,
                          TimeDate |-> <<"2","0","2","4","-","0","1","-","0","1"," ",
                                  "0","6",":","3","0"," ","t","o"," ","1","4",":","0",
                                  "5">>,
                          Risks |-> <<"T","o","r","q","u","e",","," ","S","t","u","c","k">>]
    /\ results.rows[2].Risks = <<"H","i","g","h"," ","T","R","Q",","," ","D","r","a","g">>

IsRiskSheet(sheet) == sheet.name = SheetName

C7_EmptyTableWritesNothing ==
    [][(pc = "save" /\ all_results = <<>>) =>
          /\ out_file' = out_file
          /\ message' \in {"No results to save.",
                           "No risk keywords found in any files."}]_vars

\* save_results returned on an empty table and there is still no output file
C7_Witness ==
    /\ pc = "exit"
    /\ all_results = <<>>
    /\ message = "No results to save."
    /\ ~out_file.exists

=============================================================================
